---- MODULE Spec2Model ----
(***************************************************************************)
(* The move engine of scripts/engine_run.mjs: one run upserts the          *)
(* platform, ingests the upstream market list into the Market and          *)
(* Snapshot tables and then computes the Move rows of each window.         *)
(*                                                                         *)
(* Conventions of the model                                                *)
(*  - a timestamp is its epoch value in milliseconds: the ISO text that    *)
(*    the script stores and `new Date(ts).getTime()` reads back denote     *)
(*    the same instant;                                                    *)
(*  - a decimal number is an integer count of ten-thousandths (One is      *)
(*    1.0), so 0.70 - 0.55 is the exact 1500; IEEE rounding is not         *)
(*    modelled;                                                            *)
(*  - a JavaScript value is a record [t, n, s, a]: its typeof-like tag,    *)
(*    its number, its text and its array elements;                         *)
(*  - a table is a bag of rows, so that a duplicated key is a state the    *)
(*    model can be in.                                                     *)
(***************************************************************************)
EXTENDS Integers, Sequences, FiniteSets, Bags, TLC

VARIABLES now, markets, snapshots, moves, platforms,
          pc, runTs, fetched, batch, runs, last, lastWrite, probe

vars == <<now, markets, snapshots, moves, platforms,
          pc, runTs, fetched, batch, runs, last, lastWrite, probe>>

----------------------------------------------------------------------------
(* JavaScript values *)

One == 100 * 100

Undef == [t |-> "undefined", n |-> 0, s |-> "", a |-> <<>>]
JsNull == [t |-> "null", n |-> 0, s |-> "", a |-> <<>>]
NaN == [t |-> "number", n |-> 0, s |-> "NaN", a |-> <<>>]
JsNum(x) == [t |-> "number", n |-> x, s |-> "", a |-> <<>>]
JsStr(x) == [t |-> "string", n |-> 0, s |-> x, a |-> <<>>]
JsArr(x) == [t |-> "array", n |-> 0, s |-> "", a |-> x]
JsBool(b) == [t |-> "boolean", n |-> IF b THEN 1 ELSE 0, s |-> "", a |-> <<>>]

\* A step of a fallback chain that did not return.
Miss == [t |-> "miss", n |-> 0, s |-> "", a |-> <<>>]

\* typeof v === "number"
IsNumber(v) == v.t = "number"

\* Number.isFinite(v)
IsFinite(v) == v.t = "number" /\ v.s = ""

\* m?.[f]: a field the record does not carry reads as undefined.
Get(m, f) == IF f \in DOMAIN m THEN m[f] ELSE Undef

\* a ?? b
Nullish(v) == v.t \in {"undefined", "null"}
Coalesce(x, y) == IF Nullish(x) THEN y ELSE x

\* The decimal texts of the modelled payloads and the numbers they denote.
DecimalText ==
    ("0" :> 0) @@ ("1" :> One) @@ ("2" :> 2 * One) @@
    ("0.3" :> 3000) @@ ("0.4" :> 4000) @@ ("0.55" :> 5500) @@
    ("0.62" :> 6200) @@ ("0.7" :> 7000) @@ ("70" :> 70 * One)

\* Number(text): the empty text is 0, a decimal text its number, any other NaN.
NumberOfText(x) ==
    IF x = "" THEN JsNum(0)
    ELSE IF x \in DOMAIN DecimalText THEN JsNum(DecimalText[x])
    ELSE NaN

\* String(v)
StringOf(v) ==
    CASE v.t = "string" -> v.s
      [] v.t = "undefined" -> "undefined"
      [] v.t = "null" -> "null"
      [] v.t = "boolean" -> IF v.n = 1 THEN "true" ELSE "false"
      [] v.t = "number" ->
            IF v.s = "NaN" THEN "NaN"
            ELSE IF \E x \in DOMAIN DecimalText : DecimalText[x] = v.n
                 THEN CHOOSE x \in DOMAIN DecimalText : DecimalText[x] = v.n
                 ELSE "number"
      [] OTHER -> "object"

\* Number(v)
NumberOf(v) ==
    CASE v.t = "number" -> v
      [] v.t = "string" -> NumberOfText(v.s)
      [] v.t = "null" -> JsNum(0)
      [] v.t = "boolean" -> JsNum(v.n * One)
      [] v.t = "array" ->
            IF Len(v.a) = 0 THEN JsNum(0)
            ELSE IF Len(v.a) = 1 /\ v.a[1].t \in {"number", "string"}
                 THEN NumberOfText(StringOf(v.a[1]))
                 ELSE NaN
      [] OTHER -> NaN

\* text.toLowerCase(), on the outcome labels of the modelled payloads.
ToLowerCase(x) ==
    CASE x \in {"Yes", "YES", "yes"} -> "yes"
      [] x \in {"No", "NO", "no"} -> "no"
      [] OTHER -> x

\* The JSON array texts of the modelled payloads and the arrays they encode.
JsonText ==
    ("[\"Yes\",\"No\"]" :> JsArr(<<JsStr("Yes"), JsStr("No")>>)) @@
    ("[\"No\",\"Yes\"]" :> JsArr(<<JsStr("No"), JsStr("Yes")>>)) @@
    ("[\"0.3\",\"0.7\"]" :> JsArr(<<JsStr("0.3"), JsStr("0.7")>>)) @@
    ("[\"0.7\",\"0.3\"]" :> JsArr(<<JsStr("0.7"), JsStr("0.3")>>)) @@
    ("[\"0.55\",\"0.4\"]" :> JsArr(<<JsStr("0.55"), JsStr("0.4")>>)) @@
    ("[\"0.62\"]" :> JsArr(<<JsStr("0.62")>>)) @@
    ("[]" :> JsArr(<<>>))

\* JSON.parse(text): ok is FALSE when it throws.
JSONparse(x) ==
    IF x \in DOMAIN JsonText THEN [ok |-> TRUE, v |-> JsonText[x]]
    ELSE IF x \in DOMAIN DecimalText THEN [ok |-> TRUE, v |-> JsNum(DecimalText[x])]
    ELSE [ok |-> FALSE, v |-> Undef]

\* outs.findIndex(x => String(x).toLowerCase() === "yes"), 1-based; 0 when none.
FindYes(outs) ==
    LET hits == {i \in 1..Len(outs) : ToLowerCase(StringOf(outs[i])) = "yes"}
    IN IF hits = {} THEN 0 ELSE CHOOSE i \in hits : \A j \in hits : i <= j

\* The first step of a chain that returned, in order; null when none did.
FirstHit(steps) ==
    LET hits == {i \in 1..Len(steps) : steps[i] # Miss}
    IN IF hits = {} THEN JsNull
       ELSE steps[CHOOSE i \in hits : \A j \in hits : i <= j]

----------------------------------------------------------------------------
(* parseProb of scripts/engine_run.mjs *)

\* prices[0] of a list of at least two prices, when it is a finite number.
FirstOfPair(arr) ==
    IF arr.t = "array" /\ Len(arr.a) >= 2 /\ IsFinite(NumberOf(arr.a[1]))
    THEN NumberOf(arr.a[1])
    ELSE Miss

parseProb(m) ==
    LET prices == Get(m, "outcomePrices")
        outcomes == Get(m, "outcomes")
        encoded ==
            IF prices.t = "string" /\ JSONparse(prices.s).ok
            THEN FirstOfPair(JSONparse(prices.s).v)
            ELSE Miss
        listed == FirstOfPair(prices)
        direct(f) == IF IsNumber(Get(m, f)) THEN Get(m, f) ELSE Miss
        byYes ==
            IF outcomes.t = "string" /\ prices.t = "string"
               /\ JSONparse(outcomes.s).ok /\ JSONparse(prices.s).ok
            THEN LET outs == JSONparse(outcomes.s).v
                     pr == JSONparse(prices.s).v
                 IN IF outs.t = "array" /\ pr.t = "array" /\ Len(outs.a) = Len(pr.a)
                       /\ FindYes(outs.a) > 0
                       /\ IsFinite(NumberOf(pr.a[FindYes(outs.a)]))
                    THEN NumberOf(pr.a[FindYes(outs.a)])
                    ELSE Miss
            ELSE Miss
    IN FirstHit(<<encoded, listed, direct("probability"), direct("pYes"),
                  direct("yesPrice"), byYes>>)

----------------------------------------------------------------------------
(* parseProb of the earlier revision of the script *)

clamp01(x) ==
    IF ~IsNumber(x) \/ ~IsFinite(x) THEN JsNull
    ELSE LET y == IF x.n > One THEN x.n \div 100 ELSE x.n
         IN IF y < 0 \/ y > One THEN JsNull ELSE JsNum(y)

toArray(v) ==
    IF v.t = "array" THEN v
    ELSE IF v.t = "string" /\ JSONparse(v.s).ok /\ JSONparse(v.s).v.t = "array"
         THEN JSONparse(v.s).v
         ELSE JsNull

directKeys == <<"probability", "probabilityYes", "pYes", "yesProbability", "yesPrice">>

parseProbRev(m) ==
    LET direct(k) ==
            LET v == Get(m, k)
            IN IF IsNumber(v) THEN clamp01(v)
               ELSE IF v.t = "string" /\ IsFinite(NumberOf(v)) THEN clamp01(NumberOf(v))
               ELSE Miss
        outcomes == toArray(Get(m, "outcomes"))
        prices == toArray(Coalesce(Get(m, "outcomePrices"), Get(m, "outcome_prices")))
        byYes ==
            IF outcomes.t = "array" /\ prices.t = "array"
               /\ Len(outcomes.a) = Len(prices.a) /\ FindYes(outcomes.a) > 0
               /\ IsFinite(NumberOf(prices.a[FindYes(outcomes.a)]))
            THEN clamp01(NumberOf(prices.a[FindYes(outcomes.a)]))
            ELSE Miss
        first ==
            IF prices.t = "array" /\ Len(prices.a) > 0 /\ IsFinite(NumberOf(prices.a[1]))
            THEN clamp01(NumberOf(prices.a[1]))
            ELSE Miss
    IN FirstHit(<<direct(directKeys[1]), direct(directKeys[2]), direct(directKeys[3]),
                  direct(directKeys[4]), direct(directKeys[5]), byYes, first>>)

----------------------------------------------------------------------------
(* Bounds and configuration of the model *)

\* Runs started in one behaviour.
MaxRuns == 3

\* Records in the list the upstream serves.
MaxCatalog == 2

\* POLY_PAGE_SIZE, POLY_PAGES and POLY_MAX, which the environment sets.
PageSize == 2
Pages == 2
MaxCount == 2

\* The row cap of the snapshot read, .limit(200000), scaled to the tables of
\* the model: a lookback holding more rows than this is cut to the oldest.
RowLimit == 3

Minute == 60 * 1000
Hour == 60 * Minute

\* The instants the wall clock takes: the start, one inside the sixth minute,
\* one over an hour on, and one just past the seven hour lookback of the start.
Instants == {0, 5 * Minute + 30000, 65 * Minute, 7 * Hour + 3 * Minute}

Procs == {1, 2}

----------------------------------------------------------------------------
(* Time and windows *)

\* The windows in the order main computes them.
Windows == <<"5m", "1h", "6h", "24h">>

\* A window of no length (not the code's windows).
zeroLengthWindow(windowKey) == 0

windowToMs(windowKey) ==
    CASE windowKey = "5m" -> 5 * 60 * 1000
      [] windowKey = "1h" -> 60 * 60 * 1000
      [] windowKey = "6h" -> 6 * 60 * 60 * 1000
      [] windowKey = "24h" -> 24 * 60 * 60 * 1000
      [] OTHER -> 5 * 60 * 1000

\* Math.floor(Date.now() / 60000) * 60000 at wall-clock time t; RUN_TS is
\* left unset.
runTsOf(t) == (t \div 60000) * 60000

\* hoursAgoIso(h) at wall-clock time t.
hoursAgoIso(t, h) == t - h * 3600 * 1000

\* Math.min(72, Math.ceil(deltaMs / 3600000) + 6)
sinceHours(windowKey) ==
    LET up == (windowToMs(windowKey) + 3600000 - 1) \div 3600000
    IN IF up + 6 < 72 THEN up + 6 ELSE 72

----------------------------------------------------------------------------
(* Storage: keyed upsert and ordered range read *)

KeyOf(row, cols) == [c \in cols |-> row[c]]

Keys(rows, cols) == {KeyOf(r, cols) : r \in rows}

Range(rows) == {rows[i] : i \in 1..Len(rows)}

\* Two rows of one batch with the same key: the statement fails.
HasDupKeys(rows, cols) ==
    \E i, j \in 1..Len(rows) : i < j /\ KeyOf(rows[i], cols) = KeyOf(rows[j], cols)

\* The rows of the table whose key no row of the batch carries.
Untouched(table, rows, cols) ==
    LET keep == {r \in BagToSet(table) : KeyOf(r, cols) \notin Keys(rows, cols)}
    IN [r \in keep |-> table[r]]

\* A plain insert: every row of the batch is added.
Insert(table, rows, cols) == table (+) SetToBag(rows)

\* .upsert(rows, { onConflict: cols }): insert, or overwrite the row of that key.
Upsert(table, rows, cols) == Untouched(table, rows, cols) (+) SetToBag(rows)

MarketKey == {"platform_id", "market_id"}
SnapshotKey == {"platform_id", "market_id", "ts"}
\* A conflict target that leaves the window key out (not the code's).
MoveKeyWithoutWindow == {"platform_id", "market_id", "ts_end"}

MoveKey == {"platform_id", "market_id", "window_key", "ts_end"}

RECURSIVE SortByTs(_)
\* The rows of a set as a list ascending by ts.
SortByTs(S) ==
    IF S = {} THEN <<>>
    ELSE LET x == CHOOSE r \in S : \A q \in S : r.ts <= q.ts
         IN <<x>> \o SortByTs(S \ {x})

\* .eq("platform_id", "polymarket").gte("ts", since)
InRange(snaps, since) ==
    {r \in BagToSet(snaps) : r.platform_id = "polymarket" /\ r.ts >= since}

\* .order("ts", { ascending: true }).limit(RowLimit): the results the read can
\* return. Rows of equal ts come in no fixed order, so a cut inside them may
\* keep any of them.
LoadedSets(snaps, since) ==
    LET S == InRange(snaps, since)
    IN IF Cardinality(S) <= RowLimit THEN {S}
       ELSE {L \in SUBSET S : /\ Cardinality(L) = RowLimit
                              /\ \A x \in L, y \in S \ L : x.ts <= y.ts}

----------------------------------------------------------------------------
(* As-of lookup *)

NoPoint == [none |-> TRUE]

RECURSIVE Scan(_, _, _, _)
Scan(points, tMs, i, best) ==
    IF i > Len(points) THEN best
    ELSE IF points[i].ts <= tMs THEN Scan(points, tMs, i + 1, points[i])
    ELSE best

\* The point nearest to the target in absolute time (not the code's lookup).
pickNearest(points, tMs) ==
    LET dist(i) == IF points[i].ts <= tMs THEN tMs - points[i].ts ELSE points[i].ts - tMs
        best == {i \in 1..Len(points) : \A j \in 1..Len(points) : dist(i) <= dist(j)}
    IN IF best = {} THEN NoPoint ELSE points[CHOOSE i \in best : \A j \in best : i <= j]

\* The lookup with a strict comparison (not the code's lookup).
pickStrictlyBefore(points, tMs) == Scan(points, tMs - 1, 1, NoPoint)

pickProbAtOrBefore(points, tMs) == Scan(points, tMs, 1, NoPoint)

----------------------------------------------------------------------------
(* computeMoves: the rows it derives from the loaded snapshots *)

\* byMarket: the numeric points of each market, in the order they were read.
byMarket(data) ==
    LET numeric == {r \in data : r.prob_yes.t # "null" /\ r.prob_yes.t = "number"}
    IN [k \in {r.market_id : r \in numeric} |->
          SortByTs({r \in numeric : r.market_id = k})]

MoveOf(market_id, points, windowKey) ==
    LET latest == points[Len(points)]
        then == pickProbAtOrBefore(points, latest.ts - windowToMs(windowKey))
    IN [platform_id |-> "polymarket",
        market_id |-> market_id,
        window_key |-> windowKey,
        ts_end |-> latest.ts,
        prob_now |-> latest.prob_yes.n,
        prob_then |-> then.prob_yes.n,
        delta |-> latest.prob_yes.n - then.prob_yes.n,
        trust_score |-> 100]

Emits(points, windowKey) ==
    /\ Len(points) >= 2
    /\ pickProbAtOrBefore(points, points[Len(points)].ts - windowToMs(windowKey)) # NoPoint

MovesOf(data, windowKey) ==
    LET by == byMarket(data)
    IN {MoveOf(k, by[k], windowKey) : k \in {q \in DOMAIN by : Emits(by[q], windowKey)}}

----------------------------------------------------------------------------
(* The upstream feed *)

\* The market records the upstream serves in the model.
Records ==
    { [id |-> JsStr("a"), question |-> JsStr("Q"), active |-> JsBool(TRUE),
       outcomes |-> JsStr("[\"Yes\",\"No\"]"), outcomePrices |-> JsStr("[\"0.7\",\"0.3\"]")],
      [id |-> JsStr("a"), question |-> JsStr("Q"), active |-> JsBool(TRUE),
       outcomes |-> JsStr("[\"Yes\",\"No\"]"), outcomePrices |-> JsStr("[\"0.55\",\"0.4\"]")],
      [id |-> JsStr("a"), question |-> JsStr("Q"), active |-> JsBool(TRUE)],
      [id |-> JsStr("a"), title |-> JsStr("Q"), probability |-> JsNum(70 * One)],
      [slug |-> JsStr("b"), status |-> JsStr("open"), yesPrice |-> JsNum(4000)],
      [question |-> JsStr("Q"), yesPrice |-> JsNum(4000)] }

RECURSIVE SeqsUpTo(_, _)
\* The lists of at most n elements of S.
SeqsUpTo(S, n) ==
    IF n = 0 THEN {<<>>}
    ELSE LET shorter == SeqsUpTo(S, n - 1)
         IN shorter \cup {Append(q, x) : q \in {r \in shorter : Len(r) = n - 1}, x \in S}

Catalogs == SeqsUpTo(Records, MaxCatalog)

\* What one request of a page can return.
PageOutcomes == {"ok", "error", "notlist"}

marketIdOf(m) ==
    StringOf(Coalesce(Get(m, "id"), Coalesce(Get(m, "market_id"),
             Coalesce(Get(m, "slug"), JsStr("")))))

RECURSIVE Collect(_, _, _, _)
\* The page loop: [ok, all], ok FALSE when a request was not answered ok.
\* outcome[i] is the answer to request i; catalog is the list the offsets cut.
Collect(catalog, outcome, i, all) ==
    IF i >= Pages THEN [ok |-> TRUE, all |-> all]
    ELSE LET offset == i * PageSize
             upto == IF offset + PageSize < Len(catalog) THEN offset + PageSize
                     ELSE Len(catalog)
             data == SubSeq(catalog, offset + 1, upto)
         IN CASE outcome[i + 1] = "error" -> [ok |-> FALSE, all |-> all]
              [] outcome[i + 1] = "notlist" -> [ok |-> TRUE, all |-> all]
              [] OTHER ->
                    IF Len(data) < PageSize THEN [ok |-> TRUE, all |-> all \o data]
                    ELSE Collect(catalog, outcome, i + 1, all \o data)

RECURSIVE Dedup(_, _, _, _, _)
\* The deduplication loop over all, from index i on.
Dedup(all, i, seen, dedup, maxCount) ==
    IF i > Len(all) THEN dedup
    ELSE LET id == marketIdOf(all[i])
         IN IF id = "" \/ id \in seen THEN Dedup(all, i + 1, seen, dedup, maxCount)
            ELSE IF Len(dedup) + 1 >= maxCount THEN Append(dedup, all[i])
            ELSE Dedup(all, i + 1, seen \cup {id}, Append(dedup, all[i]), maxCount)

\* fetchPolymarketMarkets(maxCount): [ok, markets].
fetchPolymarketMarkets(catalog, outcome, maxCount) ==
    LET got == Collect(catalog, outcome, 0, <<>>)
    IN [ok |-> got.ok, markets |-> Dedup(got.all, 1, {}, <<>>, maxCount)]

----------------------------------------------------------------------------
(* ingestPolymarket: the rows it builds from the fetched list *)

RECURSIVE WithId(_, _)
\* The records of the list that carry a market id, in order.
WithId(list, i) ==
    IF i > Len(list) THEN <<>>
    ELSE IF marketIdOf(list[i]) = "" THEN WithId(list, i + 1)
    ELSE <<list[i]>> \o WithId(list, i + 1)

marketRow(m, ts) ==
    [platform_id |-> "polymarket",
     market_id |-> marketIdOf(m),
     title |-> Coalesce(Get(m, "question"), Coalesce(Get(m, "title"),
               Coalesce(Get(m, "name"), JsNull))),
     rules |-> Coalesce(Get(m, "rules"), Coalesce(Get(m, "description"), JsNull)),
     close_time |-> Coalesce(Get(m, "endDate"), Coalesce(Get(m, "end_date"),
                    Coalesce(Get(m, "closeTime"), JsNull))),
     status |-> StringOf(Coalesce(Get(m, "active"), Coalesce(Get(m, "status"), JsStr("")))),
     raw |-> m,
     updated_at |-> ts]

snapshotRow(m, ts) ==
    [platform_id |-> "polymarket",
     market_id |-> marketIdOf(m),
     ts |-> ts,
     prob_yes |-> parseProb(m),
     raw |-> "polymarket"]

marketRows(list, ts) ==
    LET kept == WithId(list, 1)
    IN [i \in 1..Len(kept) |-> marketRow(kept[i], ts)]

\* The Snapshot batch without the markets parseProb knows no probability for.
snapshotRowsKnown(list, ts) ==
    LET kept == SelectSeq(WithId(list, 1), LAMBDA m : parseProb(m) # JsNull)
    IN [i \in 1..Len(kept) |-> snapshotRow(kept[i], ts)]

snapshotRows(list, ts) ==
    LET kept == WithId(list, 1)
    IN [i \in 1..Len(kept) |-> snapshotRow(kept[i], ts)]

----------------------------------------------------------------------------
(* The run: main, one storage or network call per step *)

At(name, w) == [at |-> name, w |-> w]

\* Ghost: the last storage write, its rows and the wall-clock time it was made at.
NoWrite == [op |-> "none", p |-> 0, w |-> "", rows |-> {}, t |-> 0]

NoProbe == [fn |-> "none", points |-> <<>>, target |-> 0, rec |-> <<>>,
            done |-> FALSE, out |-> NoPoint, out2 |-> NoPoint]

\* Ghost: the rows last written under each key.
Overwrite(S, rows, cols) == {r \in S : KeyOf(r, cols) \notin Keys(rows, cols)} \cup rows

Init ==
    /\ now = 0
    /\ markets = EmptyBag
    /\ snapshots = EmptyBag
    /\ moves = EmptyBag
    /\ platforms = EmptyBag
    /\ pc = [p \in Procs |-> At("idle", 0)]
    /\ runTs = [p \in Procs |-> 0]
    /\ fetched = [p \in Procs |-> <<>>]
    /\ batch = [p \in Procs |-> {}]
    /\ runs = 0
    /\ last = NoWrite
    /\ lastWrite = [snapshots |-> {}, moves |-> {}]
    /\ probe = NoProbe

\* The process starts: runTs is fixed from the clock.
Start(p) ==
    /\ pc[p].at \in {"idle", "done", "failed"}
    /\ runs < MaxRuns
    /\ runTs' = [runTs EXCEPT ![p] = runTsOf(now)]
    /\ runs' = runs + 1
    /\ pc' = [pc EXCEPT ![p] = At("platforms", 0)]
    /\ fetched' = [fetched EXCEPT ![p] = <<>>]
    /\ batch' = [batch EXCEPT ![p] = {}]
    /\ UNCHANGED <<now, markets, snapshots, moves, platforms, last, lastWrite, probe>>

upsertPlatforms(p) ==
    /\ pc[p].at = "platforms"
    /\ platforms' = Upsert(platforms, {[id |-> "polymarket", name |-> "Polymarket"]}, {"id"})
    /\ pc' = [pc EXCEPT ![p] = At("fetch", 0)]
    /\ last' = [op |-> "platforms", p |-> p, w |-> "", rows |-> {},
                 t |-> now]
    /\ UNCHANGED <<now, markets, snapshots, moves, runTs, fetched, batch, runs,
                   lastWrite, probe>>

\* ingestPolymarket, the fetch: the upstream serves some list and answers
\* each page request in some way.
Fetch(p, served) ==
    /\ pc[p].at = "fetch"
    /\ \E catalog \in served, outcome \in [1..Pages -> PageOutcomes] :
          LET r == fetchPolymarketMarkets(catalog, outcome, MaxCount)
          IN IF r.ok
             THEN /\ fetched' = [fetched EXCEPT ![p] = r.markets]
                  /\ pc' = [pc EXCEPT ![p] = At("markets", 0)]
             ELSE /\ fetched' = fetched
                  /\ pc' = [pc EXCEPT ![p] = At("failed", 0)]
    /\ UNCHANGED <<now, markets, snapshots, moves, platforms, runTs, batch, runs,
                   last, lastWrite, probe>>

\* ingestPolymarket, the Market batch.
UpsertMarkets(p) ==
    /\ pc[p].at = "markets"
    /\ LET rows == marketRows(fetched[p], runTs[p])
       IN /\ ~HasDupKeys(rows, MarketKey)
          /\ markets' = Upsert(markets, Range(rows), MarketKey)
          /\ last' = [op |-> "markets", p |-> p, w |-> "", rows |-> Range(rows),
                 t |-> now]
    /\ pc' = [pc EXCEPT ![p] = At("snapshots", 0)]
    /\ UNCHANGED <<now, snapshots, moves, platforms, runTs, fetched, batch, runs,
                   lastWrite, probe>>

\* ingestPolymarket, the Snapshot batch; ingestion returns and the first
\* window is next. The list ingested stays in fetched until that window reads.
UpsertSnapshots(p) ==
    /\ pc[p].at = "snapshots"
    /\ LET rows == snapshotRows(fetched[p], runTs[p])
       IN /\ ~HasDupKeys(rows, SnapshotKey)
          /\ snapshots' = Upsert(snapshots, Range(rows), SnapshotKey)
          /\ last' = [op |-> "snapshots", p |-> p, w |-> "", rows |-> Range(rows),
                 t |-> now]
          /\ lastWrite' = [lastWrite EXCEPT
                              !.snapshots = Overwrite(@, Range(rows), SnapshotKey)]
    /\ pc' = [pc EXCEPT ![p] = At("read", 1)]
    /\ UNCHANGED <<now, markets, moves, platforms, runTs, fetched, batch, runs, probe>>

\* computeMoves(windowKey), the read and the pass over what it returned.
ReadSnapshots(p) ==
    /\ pc[p].at = "read"
    /\ LET windowKey == Windows[pc[p].w]
           since == hoursAgoIso(now, sinceHours(windowKey))
       IN \E data \in LoadedSets(snapshots, since) :
             batch' = [batch EXCEPT ![p] = MovesOf(data, windowKey)]
    /\ pc' = [pc EXCEPT ![p] = At("write", pc[p].w)]
    /\ fetched' = [fetched EXCEPT ![p] = <<>>]
    /\ UNCHANGED <<now, markets, snapshots, moves, platforms, runTs, runs,
                   last, lastWrite, probe>>

\* computeMoves(windowKey), the Move batch; the function returns, its locals
\* are gone, and main goes on to the next window.
WriteMoves(p) ==
    /\ pc[p].at = "write"
    /\ moves' = Upsert(moves, batch[p], MoveKey)
    /\ last' = [op |-> "moves", p |-> p, w |-> Windows[pc[p].w], rows |-> batch[p],
                 t |-> now]
    /\ lastWrite' = [lastWrite EXCEPT !.moves = Overwrite(@, batch[p], MoveKey)]
    /\ pc' = [pc EXCEPT ![p] = IF pc[p].w < Len(Windows) THEN At("read", pc[p].w + 1)
                                ELSE At("done", 0)]
    /\ batch' = [batch EXCEPT ![p] = {}]
    /\ UNCHANGED <<now, markets, snapshots, platforms, runTs, fetched, runs, probe>>

\* The catch of main does not exit with a failure: the run ends as succeeded.
ErrorSwallowed(p) ==
    /\ pc[p].at \in {"platforms", "markets", "snapshots", "read", "write"}
    /\ pc' = [pc EXCEPT ![p] = At("done", 0)]
    /\ fetched' = [fetched EXCEPT ![p] = <<>>]
    /\ batch' = [batch EXCEPT ![p] = {}]
    /\ UNCHANGED <<now, markets, snapshots, moves, platforms, runTs, runs, last,
                   lastWrite, probe>>

\* A storage call returns an error: the function throws, main's catch exits.
StorageError(p) ==
    /\ pc[p].at \in {"platforms", "markets", "snapshots", "read", "write"}
    /\ pc' = [pc EXCEPT ![p] = At("failed", pc[p].w)]
    /\ fetched' = [fetched EXCEPT ![p] = <<>>]
    /\ batch' = [batch EXCEPT ![p] = {}]
    /\ UNCHANGED <<now, markets, snapshots, moves, platforms, runTs, runs, last,
                   lastWrite, probe>>

\* The wall clock moves on. Only a process start and a snapshot read look at
\* it, so it moves when one of them is next.
Tick(P, instants) ==
    /\ \E p \in P : \/ pc[p].at = "read"
                    \/ pc[p].at \in {"idle", "done", "failed"} /\ runs < MaxRuns
    /\ \E t \in instants : t > now /\ now' = t
    /\ UNCHANGED <<markets, snapshots, moves, platforms, pc, runTs, fetched, batch,
                   runs, last, lastWrite, probe>>

Step(p, served) ==
    \/ Start(p)
    \/ upsertPlatforms(p)
    \/ Fetch(p, served)
    \/ UpsertMarkets(p)
    \/ UpsertSnapshots(p)
    \/ ReadSnapshots(p)
    \/ WriteMoves(p)
    \/ StorageError(p)

\* One process at a time: a run starts after the one before it ended.
Next == Tick({1}, Instants) \/ Step(1, Catalogs)

Spec == Init /\ [][Next]_vars

\* Two processes at once, on a feed of one market and within six minutes.
ConcCatalogs == SeqsUpTo({m \in Records : "outcomePrices" \in DOMAIN m}, 1)

ConcInstants == {t \in Instants : t < 10 * Minute}

NextConc == Tick(Procs, ConcInstants) \/ \E p \in Procs : Step(p, ConcCatalogs)

SpecConc == Init /\ [][NextConc]_vars

----------------------------------------------------------------------------
(* The pure functions on their own: an input is drawn, the function applied *)

\* Points of one series in a lookup input.
MaxPoints == 4

\* The timestamps and targets of the lookup inputs, five minutes apart.
LookupTs == {0, 10 * Minute, 20 * Minute, 30 * Minute}
LookupTargets == {k * 5 * Minute : k \in -1..7}

\* The lists of S in ascending (nondecreasing) order.
Ascending(S, n) ==
    {q \in SeqsUpTo(S, n) : \A i \in 1..Len(q) - 1 : q[i] <= q[i + 1]}

\* The i-th point of a series: probabilities 0.40, 0.45, 0.50, ...
PointAt(i, ts) == [ts |-> ts, prob_yes |-> JsNum(4000 + 500 * (i - 1))]

SeriesOf(q) == [i \in 1..Len(q) |-> PointAt(i, q[i])]

\* The payloads of the normalizer inputs: every combination of these fields.
OutcomesChoices ==
    {Undef, JsArr(<<JsStr("No"), JsStr("Yes")>>), JsArr(<<JsStr("YES"), JsStr("No")>>),
     JsStr("[\"No\",\"Yes\"]"), JsStr("[\"Yes\",\"No\"]"), JsArr(<<JsStr("No")>>)}
PricesChoices ==
    {Undef, JsArr(<<JsStr("0.3"), JsStr("0.7")>>), JsStr("[\"0.3\",\"0.7\"]"),
     JsArr(<<JsNum(6200)>>), JsStr("[\"0.62\"]"), JsArr(<<JsStr("0.3"), JsStr("abc")>>)}
ProbabilityChoices == {Undef, JsNum(70 * One), JsNum(4000), JsStr("0.55")}
YesPriceChoices == {Undef, JsNum(5500)}

Payload(o, pr, pb, y) ==
    LET fields == {f \in {"outcomes", "outcomePrices", "probability", "yesPrice"} :
                     CASE f = "outcomes" -> o # Undef
                       [] f = "outcomePrices" -> pr # Undef
                       [] f = "probability" -> pb # Undef
                       [] OTHER -> y # Undef}
    IN [f \in fields |-> CASE f = "outcomes" -> o
                           [] f = "outcomePrices" -> pr
                           [] f = "probability" -> pb
                           [] OTHER -> y]

Payloads ==
    {Payload(o, pr, pb, y) : o \in OutcomesChoices, pr \in PricesChoices,
                             pb \in ProbabilityChoices, y \in YesPriceChoices}

InitFn ==
    /\ now = 0
    /\ markets = EmptyBag
    /\ snapshots = EmptyBag
    /\ moves = EmptyBag
    /\ platforms = EmptyBag
    /\ pc = [p \in Procs |-> At("idle", 0)]
    /\ runTs = [p \in Procs |-> 0]
    /\ fetched = [p \in Procs |-> <<>>]
    /\ batch = [p \in Procs |-> {}]
    /\ runs = 0
    /\ last = NoWrite
    /\ lastWrite = [snapshots |-> {}, moves |-> {}]
    /\ \/ \E q \in Ascending(LookupTs, MaxPoints), t \in LookupTargets :
             probe = [NoProbe EXCEPT !.fn = "pick", !.points = SeriesOf(q), !.target = t]
       \/ \E m \in Payloads :
             probe = [NoProbe EXCEPT !.fn = "parse", !.rec = m]

ApplyPick ==
    /\ probe.fn = "pick" /\ ~probe.done
    /\ probe' = [probe EXCEPT !.done = TRUE,
                              !.out = pickProbAtOrBefore(probe.points, probe.target)]
    /\ UNCHANGED <<now, markets, snapshots, moves, platforms, pc, runTs, fetched,
                   batch, runs, last, lastWrite>>

ApplyParse ==
    /\ probe.fn = "parse" /\ ~probe.done
    /\ probe' = [probe EXCEPT !.done = TRUE,
                              !.out = parseProb(probe.rec),
                              !.out2 = parseProbRev(probe.rec)]
    /\ UNCHANGED <<now, markets, snapshots, moves, platforms, pc, runTs, fetched,
                   batch, runs, last, lastWrite>>

NextFn == ApplyPick \/ ApplyParse

SpecFn == InitFn /\ [][NextFn]_vars

----------------------------------------------------------------------------
(* As-of lookup: C1, C2 *)

Picked == probe.fn = "pick" /\ probe.done

\* The indices of the points at or before the target.
AtOrBefore(points, tMs) == {i \in 1..Len(points) : points[i].ts <= tMs}

MaxOf(S) == CHOOSE x \in S : \A y \in S : y <= x

\* C1: on an ascending series the lookup returns the last point whose
\* timestamp is at or before the target, and none exactly when no point is.
C1_AsOfLookup ==
    Picked =>
        LET idx == AtOrBefore(probe.points, probe.target)
        IN /\ (probe.out = NoPoint) <=> (idx = {})
           /\ idx # {} => probe.out = probe.points[MaxOf(idx)]

\* C1 witness: a later point is nearer to the target than the point returned.
C1_Witness ==
    /\ Picked
    /\ probe.out # NoPoint
    /\ \E j \in 1..Len(probe.points) :
          /\ probe.points[j].ts > probe.target
          /\ probe.points[j].ts - probe.target < probe.target - probe.out.ts

\* The series of the example: t = 0, 10, 20, 30 minutes with 0.40 .. 0.55.
ExampleSeries == SeriesOf(<<0, 10 * Minute, 20 * Minute, 30 * Minute>>)

OnExample(t) == Picked /\ probe.points = ExampleSeries /\ probe.target = t * Minute

\* C2 as stated: on the example, t=25 gives the point at 20, t=5 gives none,
\* t=30 gives the point at 30.
C2_AsStated ==
    /\ OnExample(25) => probe.out = PointAt(3, 20 * Minute)
    /\ OnExample(5) => probe.out = NoPoint
    /\ OnExample(30) => probe.out = PointAt(4, 30 * Minute)

\* C2 amended: on the example, t=25 gives the point at 20 (0.50), t=5 gives the
\* point at 0 (0.40), t=30 gives the point at 30 (0.55), and a target before
\* t=0 gives none.
C2_Example ==
    /\ OnExample(25) => probe.out = PointAt(3, 20 * Minute)
    /\ OnExample(5) => probe.out = PointAt(1, 0)
    /\ OnExample(30) => probe.out = PointAt(4, 30 * Minute)
    /\ OnExample(-5) => probe.out = NoPoint

\* C2 witness: the lookup at t=5 on the example has been made.
C2_Witness == OnExample(5) /\ probe.out.prob_yes = JsNum(4000)

----------------------------------------------------------------------------
(* Reference definitions for the stored tables *)

\* The stored snapshots of a market.
StoredOf(market_id) ==
    {r \in BagToSet(snapshots) : r.platform_id = "polymarket" /\ r.market_id = market_id}

\* Those of them that carry a probability.
NumericOf(market_id) == {r \in StoredOf(market_id) : r.prob_yes.t = "number"}

\* The latest row of S at or before t; NoPoint when there is none.
LatestAtOrBefore(S, t) ==
    LET early == {r \in S : r.ts <= t}
    IN IF early = {} THEN NoPoint
       ELSE CHOOSE r \in early : \A q \in early : q.ts <= r.ts

\* The keys of a table are unique: no key is carried by two rows.
UniqueKeys(table, cols) ==
    \A r \in BagToSet(table) :
        /\ table[r] = 1
        /\ \A q \in BagToSet(table) : KeyOf(q, cols) = KeyOf(r, cols) => q = r

\* The process whose run the sequential specification follows.
Running(name) == pc[1].at = name

\* The lookback start of a window at wall-clock time t.
SinceOf(windowKey, t) == hoursAgoIso(t, sinceHours(windowKey))

WindowKeys == Range(Windows)

----------------------------------------------------------------------------
(* Move invariant: C3 *)

\* C3 as stated: every stored Move has prob_now equal to the probability of
\* the market's latest stored snapshot at or before ts_end, and prob_then equal
\* to that of its latest stored snapshot at or before ts_end - window, whenever
\* a run has completed.
C3_AsStated ==
    Running("done") =>
        \A mv \in BagToSet(moves) :
            LET S == StoredOf(mv.market_id)
                nowP == LatestAtOrBefore(S, mv.ts_end)
                thenP == LatestAtOrBefore(S, mv.ts_end - windowToMs(mv.window_key))
            IN /\ nowP # NoPoint /\ nowP.prob_yes = JsNum(mv.prob_now)
               /\ thenP # NoPoint /\ thenP.prob_yes = JsNum(mv.prob_then)

\* C3 read with numeric snapshots only: every stored Move has prob_now and
\* prob_then equal to the probabilities of the market's latest stored numeric
\* snapshots at or before ts_end and ts_end - window, whenever a run has
\* completed. (Refuted as well: a Move is not revised when the snapshot it was
\* computed from is re-ingested as null.)
C3_AsStatedNumeric ==
    Running("done") =>
        \A mv \in BagToSet(moves) :
            LET S == NumericOf(mv.market_id)
                nowP == LatestAtOrBefore(S, mv.ts_end)
                thenP == LatestAtOrBefore(S, mv.ts_end - windowToMs(mv.window_key))
            IN /\ nowP # NoPoint /\ nowP.prob_yes = JsNum(mv.prob_now)
               /\ thenP # NoPoint /\ thenP.prob_yes = JsNum(mv.prob_then)

\* C3 amended: every Move row a computeMoves call has just written is stored
\* once and has prob_now equal to the probability of the market's latest stored
\* numeric snapshot at or before ts_end, and prob_then equal to that of its
\* latest stored numeric snapshot at or before ts_end - window.
C3_WrittenMoveReflectsSnapshots ==
    last.op = "moves" =>
        \A mv \in last.rows :
            LET S == NumericOf(mv.market_id)
                nowP == LatestAtOrBefore(S, mv.ts_end)
                thenP == LatestAtOrBefore(S, mv.ts_end - windowToMs(last.w))
            IN /\ mv \in BagToSet(moves) /\ moves[mv] = 1
               /\ mv.window_key = last.w
               /\ nowP # NoPoint /\ nowP.prob_yes = JsNum(mv.prob_now)
               /\ thenP # NoPoint /\ thenP.prob_yes = JsNum(mv.prob_then)

\* C3 witness: a Move was just written whose window skips over a stored
\* null-probability snapshot.
C3_Witness ==
    /\ last.op = "moves"
    /\ \E mv \in last.rows :
          /\ mv.prob_now # mv.prob_then
          /\ \E r \in StoredOf(mv.market_id) :
                /\ r.prob_yes = JsNull
                /\ r.ts <= mv.ts_end - windowToMs(last.w)
                /\ \A q \in NumericOf(mv.market_id) :
                      q.ts <= mv.ts_end - windowToMs(last.w) => q.ts < r.ts

----------------------------------------------------------------------------
(* Ingestion idempotence: C4 *)

\* C4: when ingestPolymarket has returned, running it again with the same
\* list and the same run timestamp leaves the Market and the Snapshot table
\* as they are: the same rows, each stored once, with the same values.
C4_IngestionIdempotent ==
    pc[1] = At("read", 1) =>
        LET mrows == marketRows(fetched[1], runTs[1])
            srows == snapshotRows(fetched[1], runTs[1])
        IN /\ ~HasDupKeys(mrows, MarketKey)
           /\ ~HasDupKeys(srows, SnapshotKey)
           /\ Upsert(markets, Range(mrows), MarketKey) = markets
           /\ Upsert(snapshots, Range(srows), SnapshotKey) = snapshots
           /\ UniqueKeys(markets, MarketKey)
           /\ UniqueKeys(snapshots, SnapshotKey)

\* C4 witness: an ingestion of two markets, one of them without a
\* probability, has returned into tables that held rows of an earlier run.
C4_Witness ==
    /\ pc[1] = At("read", 1)
    /\ Len(fetched[1]) = 2
    /\ \E r \in BagToSet(snapshots) : r.ts = runTs[1] /\ r.prob_yes = JsNull
    /\ \E r \in BagToSet(snapshots) : r.ts < runTs[1]

----------------------------------------------------------------------------
(* Move idempotence: C5 *)

\* The read of a window at wall-clock time t can return one result only: the
\* row cap does not cut among rows of equal ts.
ReadIsDetermined(windowKey, t) ==
    Cardinality(LoadedSets(snapshots, SinceOf(windowKey, t))) = 1

\* C5 as stated: when computeMoves(w) has written its rows and the
\* snapshots have not changed, computing w again at that or any later
\* wall-clock time leaves the Move table as it is. (Stated for the reads the
\* stored rows determine, so that no order among rows of equal ts is relied on.)
C5_AsStated ==
    last.op = "moves" =>
        \A t \in Instants :
            t >= last.t /\ ReadIsDetermined(last.w, last.t) /\ ReadIsDetermined(last.w, t) =>
                \A data \in LoadedSets(snapshots, SinceOf(last.w, t)) :
                    Upsert(moves, MovesOf(data, last.w), MoveKey) = moves

----------------------------------------------------------------------------
(* Concurrent runs: C6 *)

\* C6: while two runs interleave their writes, no two Snapshot rows share
\* (platform, market, ts), no two Move rows share (platform, market, window
\* key, end timestamp), and each key holds the row last written under it.
C6_KeyedUpsertsConverge ==
    /\ UniqueKeys(snapshots, SnapshotKey)
    /\ UniqueKeys(moves, MoveKey)
    /\ BagToSet(snapshots) = lastWrite.snapshots
    /\ BagToSet(moves) = lastWrite.moves

\* C6 witness: both processes have finished runs of the same minute, and the
\* Move of that minute was written by the one whose snapshot was overwritten.
C6_Witness ==
    /\ pc[1].at = "done" /\ pc[2].at = "done"
    /\ runTs[1] = runTs[2]
    /\ \E mv \in BagToSet(moves), r \in BagToSet(snapshots) :
          /\ r.market_id = mv.market_id /\ r.ts = mv.ts_end /\ mv.ts_end = runTs[1]
          /\ r.prob_yes # JsNum(mv.prob_now)

----------------------------------------------------------------------------
(* Window independence: C7 *)

\* The rows of a Move table outside, and of, one window.
OtherWindows(table, windowKey) ==
    LET keep == {r \in BagToSet(table) : r.window_key # windowKey}
    IN [r \in keep |-> table[r]]

\* C7: whatever computeMoves(w) loads, at this or a later wall-clock time, its
\* write leaves the rows of every other window as they are; and so does
\* deleting the rows of w and computing w again.
C7_WindowIndependence ==
    \A windowKey \in WindowKeys :
        LET others == OtherWindows(moves, windowKey)
        IN \A t \in Instants :
              t >= now =>
                  \A data \in LoadedSets(snapshots, SinceOf(windowKey, t)) :
                      LET rows == MovesOf(data, windowKey)
                      IN /\ \A r \in rows : r.window_key = windowKey
                         /\ OtherWindows(Upsert(moves, rows, MoveKey), windowKey) = others
                         /\ OtherWindows(Upsert(others, rows, MoveKey), windowKey) = others

\* C7 witness: computeMoves has just written rows of one window into a table
\* that holds a row of another window for the same market and end timestamp.
C7_Witness ==
    /\ last.op = "moves"
    /\ \E r \in last.rows, q \in BagToSet(moves) :
          /\ q.window_key # r.window_key
          /\ q.market_id = r.market_id /\ q.ts_end = r.ts_end

----------------------------------------------------------------------------
(* Insufficient history: C8 *)

\* The numeric points of a market among the loaded rows.
LoadedNumeric(data, market_id) ==
    {r \in data : r.market_id = market_id /\ r.prob_yes.t = "number"}

\* The latest timestamp among rows.
LatestTs(S) == MaxOf({r.ts : r \in S})

\* The market has two numeric points loaded, one of them at least a window
\* older than the latest.
OldEnough(data, market_id, windowKey) ==
    LET S == LoadedNumeric(data, market_id)
    IN /\ Cardinality(S) >= 2
       /\ \E r \in S : r.ts <= LatestTs(S) - windowToMs(windowKey)

\* C8: the rows computeMoves is about to write hold exactly one Move for
\* each market with two numeric points loaded of which one is at least a
\* window older than the latest, and none for any other market; the write
\* can go ahead.
C8_InsufficientHistorySkipped ==
    Running("write") =>
        LET windowKey == Windows[pc[1].w]
        IN /\ \E data \in LoadedSets(snapshots, SinceOf(windowKey, now)) :
                 \A k \in {r.market_id : r \in BagToSet(snapshots)} :
                     Cardinality({mv \in batch[1] : mv.market_id = k})
                         = IF OldEnough(data, k, windowKey) THEN 1 ELSE 0
           /\ \A mv \in batch[1] : mv.window_key = windowKey
           /\ ENABLED WriteMoves(1)

\* C8 witness: nothing is written for a window although one market has a
\* single snapshot and another has two numeric ones too close together.
C8_Witness ==
    /\ Running("write")
    /\ batch[1] = {}
    /\ \E k \in {r.market_id : r \in BagToSet(snapshots)} : Cardinality(StoredOf(k)) = 1
    /\ \E k \in {r.market_id : r \in BagToSet(snapshots)} :
          /\ Cardinality(NumericOf(k)) >= 2
          /\ \A r \in NumericOf(k) : r.ts >= SinceOf(Windows[pc[1].w], now)

----------------------------------------------------------------------------
(* Delta: C9 *)

\* C9 as stated: every stored Move has delta = prob_now - prob_then, and the
\* delta lies in [-1, 1].
C9_AsStated ==
    \A mv \in BagToSet(moves) :
        /\ mv.delta = mv.prob_now - mv.prob_then
        /\ -One <= mv.delta /\ mv.delta <= One

----------------------------------------------------------------------------
(* Normalizer fallback order: C10 *)

Parsed == probe.fn = "parse" /\ probe.done

\* The value the stated chain takes from a payload, before any rescaling:
\* a direct numeric field, else the price at the "yes" index of outcomes and
\* prices of equal length, else the first price when no "yes" index was found.
ClaimedChain(m) ==
    LET numeric(k) ==
            LET v == Get(m, k)
            IN IF IsNumber(v) THEN v
               ELSE IF v.t = "string" /\ IsFinite(NumberOf(v)) THEN NumberOf(v)
               ELSE Miss
        outcomes == toArray(Get(m, "outcomes"))
        prices == toArray(Get(m, "outcomePrices"))
        paired == outcomes.t = "array" /\ prices.t = "array"
                  /\ Len(outcomes.a) = Len(prices.a)
        yes == IF paired THEN FindYes(outcomes.a) ELSE 0
        byYes == IF yes > 0
                 THEN IF IsFinite(NumberOf(prices.a[yes])) THEN NumberOf(prices.a[yes])
                      ELSE JsNull
                 ELSE Miss
        first == IF yes = 0 /\ prices.t = "array" /\ Len(prices.a) > 0
                    /\ IsFinite(NumberOf(prices.a[1]))
                 THEN NumberOf(prices.a[1])
                 ELSE Miss
    IN FirstHit(<<numeric(directKeys[1]), numeric(directKeys[2]), numeric(directKeys[3]),
                  numeric(directKeys[4]), numeric(directKeys[5]), byYes, first>>)

\* C10 as stated: parseProb returns what the stated chain takes, as it is or
\* rescaled into [0,1]; so outcomes ["No","Yes"] with prices ["0.3","0.7"]
\* give 0.7, and prices [0.62] alone give 0.62.
C10_AsStated ==
    Parsed => probe.out \in {ClaimedChain(probe.rec), clamp01(ClaimedChain(probe.rec))}

----------------------------------------------------------------------------
(* Normalizer range: C11 *)

\* A probability in [0,1].
InUnit(v) == IsFinite(v) /\ 0 <= v.n /\ v.n <= One

\* C11 as stated: parseProb returns a value in [0,1] or null; an accepted
\* number above 1 is divided by 100, so a probability field of 70 alone
\* yields 0.70.
C11_AsStated ==
    Parsed =>
        /\ probe.out = JsNull \/ InUnit(probe.out)
        /\ probe.rec = Payload(Undef, Undef, JsNum(70 * One), Undef) => probe.out = JsNum(7000)

----------------------------------------------------------------------------
(* Fail-fast run: C12 *)

\* The place of a position of main in the order of the phases; 0 when no run
\* is executing.
PhaseOrd(x) ==
    CASE x.at = "platforms" -> 1
      [] x.at = "fetch" -> 2
      [] x.at = "markets" -> 3
      [] x.at = "snapshots" -> 4
      [] x.at = "read" -> 3 + 2 * x.w
      [] x.at = "write" -> 4 + 2 * x.w
      [] OTHER -> 0

\* The position of the last step of a run: the Move batch of the last window.
LastPhase == At("write", Len(Windows))

\* A step of the run that writes nothing.
NoTableWrite ==
    /\ markets' = markets /\ snapshots' = snapshots
    /\ moves' = moves /\ platforms' = platforms

\* C12: a run goes through its phases one by one in the fixed order; each
\* table is written in its own phase only, with that phase's batch; a step
\* that fails writes nothing and ends the run as failed, after which the run
\* writes nothing; and the run ends as succeeded only from its last phase.
C12_FailFast ==
    [][LET a == pc[1]
           b == pc'[1]
       IN /\ PhaseOrd(a) = 0 => NoTableWrite
          /\ PhaseOrd(a) = 0 /\ b # a => b = At("platforms", 0)
          /\ PhaseOrd(a) > 0 /\ b # a =>
                \/ b.at = "failed" /\ NoTableWrite
                \/ b.at = "done" /\ a = LastPhase
                \/ PhaseOrd(b) = PhaseOrd(a) + 1
          /\ platforms' # platforms => a.at = "platforms"
          /\ markets' # markets =>
                /\ a.at = "markets" /\ b.at = "snapshots"
                /\ markets' = Upsert(markets, Range(marketRows(fetched[1], runTs[1])),
                                     MarketKey)
          /\ snapshots' # snapshots =>
                /\ a.at = "snapshots" /\ b = At("read", 1)
                /\ snapshots' = Upsert(snapshots,
                                       Range(snapshotRows(fetched[1], runTs[1])),
                                       SnapshotKey)
          /\ moves' # moves =>
                /\ a.at = "write" /\ PhaseOrd(b) \in {0, PhaseOrd(a) + 1} /\ b.at # "failed"
                /\ \A r \in BagToSet(moves') :
                      r \in BagToSet(moves) \/ r.window_key = Windows[a.w]
      ]_vars

\* C12 witness: a later run has failed after the reference-data upsert and
\* before any write of its ingestion, with rows of an earlier run stored.
C12_Witness ==
    /\ pc[1] = At("failed", 0)
    /\ runs >= 2
    /\ last.op = "platforms" /\ last.t = now
    /\ markets # EmptyBag /\ snapshots # EmptyBag /\ moves # EmptyBag
    /\ \A r \in BagToSet(markets) : r.updated_at < runTs[1]
    /\ \A r \in BagToSet(snapshots) : r.ts < runTs[1]

----------------------------------------------------------------------------
(* History under later runs: C13 *)

\* The rows of a table under the keys of another.
SameRowsKept(table, after) ==
    \A r \in BagToSet(table) : r \in BagToSet(after) /\ after[r] = table[r]

\* C13 as stated: no step deletes a Snapshot or a Move row; and when
\* computeMoves writes its batch, each row goes under the end timestamp of the
\* market's newest stored numeric snapshot (a new key when a later snapshot
\* has arrived), and every stored Move whose end timestamp is older than the
\* market's newest numeric snapshot stays as it is. (The write is taken after
\* a read the stored rows determine, so that no order among rows of equal ts
\* is relied on.)
C13_AsStated ==
    [][/\ Keys(BagToSet(snapshots), SnapshotKey) \subseteq Keys(BagToSet(snapshots'), SnapshotKey)
       /\ Keys(BagToSet(moves), MoveKey) \subseteq Keys(BagToSet(moves'), MoveKey)
       /\ pc[1].at = "write" /\ pc'[1].at # "failed"
          /\ ReadIsDetermined(Windows[pc[1].w], now) =>
             /\ \A mv \in batch[1] :
                   mv.ts_end = LatestTs(NumericOf(mv.market_id))
             /\ \A r \in BagToSet(moves) :
                   r.ts_end < LatestTs(NumericOf(r.market_id)) =>
                       r \in BagToSet(moves') /\ moves'[r] = moves[r]
      ]_vars

----------------------------------------------------------------------------
(* The feed functions on their inputs: market id, paging, deduplication *)

\* Records in the list the upstream serves to one fetch.
MaxFeed == 5

\* The id fields of the records: absent, null, empty, text, number.
IdChoices == {Undef, JsNull, JsStr(""), JsStr("a"), JsNum(One), JsNum(0)}
MarketIdChoices == {Undef, JsStr(""), JsStr("m")}
SlugChoices == {Undef, JsStr(""), JsStr("b")}

\* A record carrying the given id fields.
IdPayload(i, k, s) ==
    LET fields == {f \in {"id", "market_id", "slug"} :
                     CASE f = "id" -> i # Undef
                       [] f = "market_id" -> k # Undef
                       [] OTHER -> s # Undef}
    IN [f \in fields |-> CASE f = "id" -> i
                           [] f = "market_id" -> k
                           [] OTHER -> s]

IdPayloads ==
    {IdPayload(i, k, s) : i \in IdChoices, k \in MarketIdChoices, s \in SlugChoices}

\* The records of the served lists: two of market a with different prices,
\* one of market b, one without a probability, one without any id.
FeedRecords ==
    { [id |-> JsStr("a"), outcomePrices |-> JsStr("[\"0.7\",\"0.3\"]")],
      [id |-> JsStr("a"), outcomePrices |-> JsStr("[\"0.55\",\"0.4\"]")],
      [slug |-> JsStr("b"), yesPrice |-> JsNum(4000)],
      [market_id |-> JsStr("m")],
      [question |-> JsStr("Q")] }

RECURSIVE Requests(_, _, _)
\* The offsets the page loop requests, in order, from request i on.
Requests(catalog, outcome, i) ==
    IF i >= Pages THEN <<>>
    ELSE LET offset == i * PageSize
             upto == IF offset + PageSize < Len(catalog) THEN offset + PageSize
                     ELSE Len(catalog)
             data == SubSeq(catalog, offset + 1, upto)
         IN IF outcome[i + 1] # "ok" \/ Len(data) < PageSize THEN <<offset>>
            ELSE <<offset>> \o Requests(catalog, outcome, i + 1)

InitFeed ==
    /\ now = 0
    /\ markets = EmptyBag
    /\ snapshots = EmptyBag
    /\ moves = EmptyBag
    /\ platforms = EmptyBag
    /\ pc = [p \in Procs |-> At("idle", 0)]
    /\ runTs = [p \in Procs |-> 0]
    /\ fetched = [p \in Procs |-> <<>>]
    /\ batch = [p \in Procs |-> {}]
    /\ runs = 0
    /\ last = NoWrite
    /\ lastWrite = [snapshots |-> {}, moves |-> {}]
    /\ \/ \E m \in IdPayloads :
             probe = [fn |-> "id", rec |-> m, done |-> FALSE, out |-> <<>>]
       \/ \E catalog \in SeqsUpTo(FeedRecords, MaxFeed),
             outcome \in [1..Pages -> PageOutcomes], maxCount \in 0..MaxCount :
             probe = [fn |-> "fetch", catalog |-> catalog, outcome |-> outcome,
                      maxCount |-> maxCount, done |-> FALSE, out |-> <<>>]

\* One record through the id derivation, the deduplication and the row
\* building of ingestion.
ApplyId ==
    /\ probe.fn = "id" /\ ~probe.done
    /\ probe' = [probe EXCEPT
                    !.done = TRUE,
                    !.out = [id |-> marketIdOf(probe.rec),
                             dedup |-> Dedup(<<probe.rec>>, 1, {}, <<>>, MaxCount),
                             marketRows |-> marketRows(<<probe.rec>>, 0),
                             snapshotRows |-> snapshotRows(<<probe.rec>>, 0)]]
    /\ UNCHANGED <<now, markets, snapshots, moves, platforms, pc, runTs, fetched,
                   batch, runs, last, lastWrite>>

\* One fetch of a served list, and the rows ingestion builds from it.
ApplyFetch ==
    /\ probe.fn = "fetch" /\ ~probe.done
    /\ LET r == fetchPolymarketMarkets(probe.catalog, probe.outcome, probe.maxCount)
       IN probe' = [probe EXCEPT
                       !.done = TRUE,
                       !.out = [ok |-> r.ok,
                                markets |-> r.markets,
                                requests |-> Requests(probe.catalog, probe.outcome, 0),
                                marketRows |-> marketRows(r.markets, 0),
                                snapshotRows |-> snapshotRows(r.markets, 0)]]
    /\ UNCHANGED <<now, markets, snapshots, moves, platforms, pc, runTs, fetched,
                   batch, runs, last, lastWrite>>

NextFeed == ApplyId \/ ApplyFetch

SpecFeed == InitFeed /\ [][NextFeed]_vars

----------------------------------------------------------------------------
(* Market id derivation: C14 *)

IdProbed == probe.fn = "id" /\ probe.done

\* The text a field yields: none for an absent or null field.
Yields(m, f) == IF Nullish(Get(m, f)) THEN "" ELSE StringOf(Get(m, f))

\* The first of id, market_id, slug that yields a non-empty text; "" when none does.
FirstNonEmpty(m) ==
    IF Yields(m, "id") # "" THEN Yields(m, "id")
    ELSE IF Yields(m, "market_id") # "" THEN Yields(m, "market_id")
    ELSE Yields(m, "slug")

\* C14 as stated: the market id is the first of id, market_id, slug that
\* yields a non-empty text, in ingestion and in deduplication, and the record
\* is skipped only when none of them does.
C14_AsStated ==
    IdProbed =>
        LET want == FirstNonEmpty(probe.rec)
        IN /\ probe.out.id = want
           /\ Len(probe.out.dedup) = (IF want = "" THEN 0 ELSE 1)
           /\ Len(probe.out.marketRows) = (IF want = "" THEN 0 ELSE 1)
           /\ Len(probe.out.snapshotRows) = (IF want = "" THEN 0 ELSE 1)
           /\ want # "" => /\ probe.out.marketRows[1].market_id = want
                           /\ probe.out.snapshotRows[1].market_id = want

----------------------------------------------------------------------------
(* Normalization miss: C15 *)

\* The table holds the row, once, and no other row under its key.
HoldsOnce(table, row, cols) ==
    /\ {r \in BagToSet(table) : KeyOf(r, cols) = KeyOf(row, cols)} = {row}
    /\ table[row] = 1

\* C15: when ingestPolymarket has returned, every fetched market that has a
\* market id has exactly one Market row, and exactly one Snapshot row at the
\* run timestamp carrying what parseProb returned, null included; and the
\* two batches of ingestion hold one row for each fetched market and no key
\* twice, so that the upserts accept them whatever parseProb returned.
C15_MissRecorded ==
    /\ pc[1] = At("read", 1) =>
          \A i \in 1..Len(fetched[1]) :
              LET m == fetched[1][i]
              IN marketIdOf(m) # "" =>
                    /\ HoldsOnce(markets, marketRow(m, runTs[1]), MarketKey)
                    /\ HoldsOnce(snapshots, snapshotRow(m, runTs[1]), SnapshotKey)
                    /\ \A r \in BagToSet(snapshots) :
                          r.market_id = marketIdOf(m) /\ r.ts = runTs[1] =>
                              r.prob_yes = parseProb(m)
    /\ pc[1].at = "markets" =>
          ~HasDupKeys(marketRows(fetched[1], runTs[1]), MarketKey)
    /\ pc[1].at = "snapshots" =>
          /\ ~HasDupKeys(snapshotRows(fetched[1], runTs[1]), SnapshotKey)
          /\ Len(snapshotRows(fetched[1], runTs[1])) = Len(fetched[1])

\* C15 witness: an ingestion has returned whose list held a market parseProb
\* knows no probability for, next to one it does; the first is stored with null.
C15_Witness ==
    /\ pc[1] = At("read", 1)
    /\ \E i, j \in 1..Len(fetched[1]) :
          /\ parseProb(fetched[1][i]) = JsNull
          /\ parseProb(fetched[1][j]) # JsNull
          /\ [platform_id |-> "polymarket", market_id |-> marketIdOf(fetched[1][i]),
              ts |-> runTs[1], prob_yes |-> JsNull, raw |-> "polymarket"]
                \in BagToSet(snapshots)

----------------------------------------------------------------------------
(* Upstream paging and deduplication: C16 *)

FetchProbed == probe.fn = "fetch" /\ probe.done

\* The rows request i (from 1) is served, and whether that page ends the
\* loop: it is not answered with a list, or holds fewer rows than requested.
PageOf(catalog, i) ==
    SubSeq(catalog, (i - 1) * PageSize + 1,
           IF i * PageSize < Len(catalog) THEN i * PageSize ELSE Len(catalog))

EndsLoop(catalog, outcome, i) ==
    outcome[i] # "ok" \/ Len(PageOf(catalog, i)) < PageSize

\* The number of requests the stated loop makes: up to the first page that
\* ends it, and no more than the page cap.
StatedRequests(catalog, outcome) ==
    LET ending == {i \in 1..Pages : EndsLoop(catalog, outcome, i)}
    IN IF ending = {} THEN Pages ELSE CHOOSE i \in ending : \A j \in ending : i <= j

\* The records of the pages answered with a list, in order.
Received(catalog, outcome, n) ==
    IF n = 0 THEN <<>>
    ELSE IF outcome[n] = "ok" THEN SubSeq(catalog, 1,
                                          IF n * PageSize < Len(catalog) THEN n * PageSize
                                          ELSE Len(catalog))
    ELSE SubSeq(catalog, 1, (n - 1) * PageSize)

\* C16, the paging: the requests are at offsets 0, pageSize, 2*pageSize, ...
\* and end with the first page that ends the loop, or with the page cap.
C16_Paging ==
    FetchProbed =>
        /\ Len(probe.out.requests) = StatedRequests(probe.catalog, probe.outcome)
        /\ Len(probe.out.requests) <= Pages
        /\ \A i \in 1..Len(probe.out.requests) :
              probe.out.requests[i] = (i - 1) * PageSize

\* C16, the deduplication: the list returned holds one record for each market
\* id, the first received with that id, in the order received; so no batch of
\* ingestion holds a key twice.
C16_Dedup ==
    FetchProbed /\ probe.out.ok =>
        LET got == Received(probe.catalog, probe.outcome, Len(probe.out.requests))
            kept == probe.out.markets
        IN /\ \A i, j \in 1..Len(kept) :
                 i < j => marketIdOf(kept[i]) # marketIdOf(kept[j])
           /\ \A i \in 1..Len(kept) :
                 \E k \in 1..Len(got) :
                    /\ got[k] = kept[i]
                    /\ \A h \in 1..(k - 1) : marketIdOf(got[h]) # marketIdOf(kept[i])
           /\ ~HasDupKeys(probe.out.marketRows, MarketKey)
           /\ ~HasDupKeys(probe.out.snapshotRows, SnapshotKey)

\* C16, the cap: the list returned holds at most maxCount records.
C16_AtMostMaxCount ==
    FetchProbed /\ probe.out.ok => Len(probe.out.markets) <= probe.maxCount

\* C16 as stated: the paging, the deduplication and the cap.
C16_AsStated == C16_Paging /\ C16_Dedup /\ C16_AtMostMaxCount

\* The cap holds when maxCount is at least one.
C16_AtMostPositiveMaxCount ==
    FetchProbed /\ probe.out.ok /\ probe.maxCount >= 1 =>
        Len(probe.out.markets) <= probe.maxCount

----------------------------------------------------------------------------
(* The "then" point of a Move: C17 *)

\* C17: every window length is positive; and each Move computeMoves is about
\* to write was computed from a "then" point that is another snapshot than
\* the "now" point, at least a window length before the Move's end timestamp;
\* the batch holds at most one Move for a market.
C17_ThenBeforeNow ==
    /\ \A windowKey \in WindowKeys : windowToMs(windowKey) > 0
    /\ Running("write") =>
          LET windowKey == Windows[pc[1].w]
          IN /\ \A mv \in batch[1] :
                   \E data \in {d \in LoadedSets(snapshots, SinceOf(windowKey, now)) :
                                    mv.market_id \in DOMAIN byMarket(d)} :
                      LET points == byMarket(data)[mv.market_id]
                          latest == points[Len(points)]
                          then == pickProbAtOrBefore(points,
                                                     latest.ts - windowToMs(windowKey))
                      IN /\ then # NoPoint /\ then # latest
                         /\ mv = MoveOf(mv.market_id, points, windowKey)
                         /\ then.ts <= mv.ts_end - windowToMs(windowKey)
                         /\ mv.ts_end - windowToMs(windowKey) < mv.ts_end
             /\ \A mv, other \in batch[1] : mv.market_id = other.market_id => mv = other

\* C17 witness: a Move is about to be written for a market that has a
\* numeric snapshot less than a window before the end timestamp, which the
\* lookup passed over.
C17_Witness ==
    /\ Running("write")
    /\ \E mv \in batch[1] :
          \E r \in NumericOf(mv.market_id) :
             /\ mv.ts_end - windowToMs(mv.window_key) < r.ts
             /\ r.ts < mv.ts_end

====
